---- MODULE Spec2Model ----
(***************************************************************************)
(* Model of pdf_chat_api.py: the /ask_question/ request pipeline            *)
(* (extract -> chunk -> index -> retrieve -> answer), the vector store      *)
(* persisted at "chroma_db" that every request writes to and reads from,    *)
(* and the two pure helpers get_pdf_text and get_text_chunks.               *)
(*                                                                         *)
(* Text is a sequence of characters, each a one-character string, or the    *)
(* name of its code point where there is no literal for it.  The library    *)
(* calls the source makes are modelled by what they do:                     *)
(* RecursiveCharacterTextSplitter (separators "\n\n", "\n", " ", "",         *)
(* keep_separator, strip_whitespace), Chroma.from_texts (get-or-create the  *)
(* collection at the directory, then add one record per text under a fresh  *)
(* id; an empty batch is rejected), Chroma.similarity_search (k = 4 nearest *)
(* records of the collection) and FastAPI's binding of required form        *)
(* parameters (422 with a list of errors when one is missing).              *)
(***************************************************************************)
EXTENDS Naturals, Sequences, FiniteSets, TLC

VARIABLES
    \* ---- the service (Spec, SpecSingle)
    pc,          \* request -> "idle" | "ready" | "chunk" | "index" |
                 \*            "retrieve" | "answer" | "done"
    proc,        \* request -> the worker process that received it (0: none)
    upload,      \* request -> its pdf_files part
    question,    \* request -> its user_question part or NoPart
    raw_text,    \* request -> the handler's raw_text
    text_chunks, \* request -> the handler's text_chunks
    docs,        \* request -> the handler's docs (records retrieved), until
                 \*            it returns
    response,    \* request -> the HTTP response sent, NoResponse before
    loop,        \* process -> the request whose handler its event loop runs
    index,       \* the records of the collection persisted at "chroma_db"
    dir_exists,  \* whether the directory "chroma_db" exists
    trace,       \* request -> the stages its handler has entered, in order
    raised,      \* request -> the exceptions raised in its handler, in
                 \*            order: the message and the number of stages
                 \*            entered when it was raised
    stored,      \* request -> the collection right after its from_texts
    seen,        \* request -> the collection its similarity_search read,
                 \*            kept as long as docs
    \* ---- get_text_chunks applied to one input (SpecChunker)
    c_text,      \* the input string
    c_chunks,    \* the value returned
    c_pc,        \* "call" | "returned"
    \* ---- get_pdf_text applied to one input (SpecExtractor)
    e_docs,      \* the list of files
    e_result,    \* the outcome: a text returned or an exception raised
    e_pc         \* "call" | "returned"

svc_vars == <<pc, proc, upload, question, raw_text, text_chunks, docs,
              response, loop, index, dir_exists, trace, raised, stored,
              seen>>
c_vars == <<c_text, c_chunks, c_pc>>
e_vars == <<e_docs, e_result, e_pc>>

vars == <<svc_vars, c_vars, e_vars>>

\* ------------------------------------------------------------------ text

SP == " "
NL == "\n"
TAB == "\t"
CR == "\r"
FF == "\f"

\* The characters str.strip() removes: those str.isspace() is true of.
Whitespace ==
    {TAB, NL, "U+000B", FF, CR, "U+001C", "U+001D", "U+001E", "U+001F", SP,
     "U+0085", "U+00A0", "U+1680", "U+2000", "U+2001", "U+2002", "U+2003",
     "U+2004", "U+2005", "U+2006", "U+2007", "U+2008", "U+2009", "U+200A",
     "U+2028", "U+2029", "U+202F", "U+205F", "U+3000"}

\* The characters of the strings given to get_text_chunks: letters, the two
\* characters the separators are made of, and a whitespace character that
\* is no separator.
Chars == {"a", "b", SP, NL, TAB}

\* Bound on the length of the strings given to get_text_chunks.
MaxLen == 6

RECURSIVE Flatten(_)
\* "".join(parts)
Flatten(parts) ==
    IF parts = <<>> THEN <<>> ELSE Head(parts) \o Flatten(Tail(parts))

RECURSIVE LStrip(_)
\* str.lstrip()
LStrip(s) ==
    IF s # <<>> /\ Head(s) \in Whitespace THEN LStrip(Tail(s)) ELSE s

RECURSIVE RStrip(_)
\* str.rstrip()
RStrip(s) ==
    IF s # <<>> /\ s[Len(s)] \in Whitespace
    THEN RStrip(SubSeq(s, 1, Len(s) - 1))
    ELSE s

\* str.strip()
Strip(s) == RStrip(LStrip(s))

\* s is a contiguous substring of t
IsSubstring(s, t) ==
    \E i \in 1..(Len(t) + 1) :
        /\ i + Len(s) - 1 <= Len(t)
        /\ SubSeq(t, i, i + Len(s) - 1) = s

\* ------------------------------------------- RecursiveCharacterTextSplitter

\* chunk_size=10000, chunk_overlap=1000, scaled down.
ChunkSize == 3
ChunkOverlap == 1

\* The splitter's default separators: "\n\n", "\n", " ", "".
Separators == << <<NL, NL>>, <<NL>>, <<SP>>, <<>> >>

\* First position >= i where sep occurs in text, 0 when there is none.
RECURSIVE FindFrom(_, _, _)
FindFrom(text, sep, i) ==
    IF i + Len(sep) - 1 > Len(text) THEN 0
    ELSE IF SubSeq(text, i, i + Len(sep) - 1) = sep THEN i
    ELSE FindFrom(text, sep, i + 1)

\* re.split(f"({sep})", text) with every separator glued to the front of the
\* piece that follows it (keep_separator=True); start is the next unread
\* position and lead the separator that precedes it.
RECURSIVE Pieces(_, _, _, _)
Pieces(text, sep, start, lead) ==
    LET j == FindFrom(text, sep, start)
    IN  IF j = 0
        THEN << lead \o SubSeq(text, start, Len(text)) >>
        ELSE << lead \o SubSeq(text, start, j - 1) >>
             \o Pieces(text, sep, j + Len(sep), sep)

\* _split_text_with_regex(text, separator, keep_separator=True)
SplitWithRegex(text, sep) ==
    LET raw == IF sep = <<>>
               THEN [i \in 1..Len(text) |-> <<text[i]>>]
               ELSE Pieces(text, sep, 1, <<>>)
    IN  SelectSeq(raw, LAMBDA s : s # <<>>)

\* TextSplitter._join_docs with separator "": the joined text stripped, or
\* <<>> (None) when nothing is left.
JoinDocs(current) == Strip(Flatten(current))

\* PopFront with the overlap forgotten: the next document starts empty.
PopFront_NoOverlap(current, len) == <<>>

\* The while loop of _merge_splits: drop leading splits of the current
\* document while it is longer than the overlap, or while the next split
\* (of length len) still does not fit.
RECURSIVE PopFront(_, _)
PopFront(current, len) ==
    LET total == Len(Flatten(current))
    IN  IF total > ChunkOverlap \/ (total + len > ChunkSize /\ total > 0)
        THEN PopFront(Tail(current), len)
        ELSE current

\* TextSplitter._merge_splits(splits, separator="") from split i on, with
\* the documents emitted so far and the splits of the current document.
RECURSIVE MergeFrom(_, _, _, _)
MergeFrom(splits, i, out, current) ==
    IF i > Len(splits)
    THEN IF JoinDocs(current) = <<>> THEN out
         ELSE Append(out, JoinDocs(current))
    ELSE
        LET d     == splits[i]
            total == Len(Flatten(current))
        IN  IF total + Len(d) > ChunkSize /\ Len(current) > 0
            THEN MergeFrom(splits, i + 1,
                     IF JoinDocs(current) = <<>> THEN out
                     ELSE Append(out, JoinDocs(current)),
                     Append(PopFront(current, Len(d)), d))
            ELSE MergeFrom(splits, i + 1, out, Append(current, d))

\* TextSplitter._merge_splits(splits, separator="")
MergeSplits(splits) == MergeFrom(splits, 1, <<>>, <<>>)

\* Index in seps of the separator _split_text picks: the first one that is
\* "" or occurs in the text (the last one when there is none).
RECURSIVE PickSeparator(_, _, _)
PickSeparator(text, seps, i) ==
    IF i >= Len(seps) THEN Len(seps)
    ELSE IF seps[i] = <<>> \/ FindFrom(text, seps[i], 1) # 0 THEN i
    ELSE PickSeparator(text, seps, i + 1)

RECURSIVE SplitText(_, _)
RECURSIVE SplitLoop(_, _, _, _, _)

\* The for loop of _split_text over the splits: short splits are collected
\* and merged, a split of chunk_size or more is split again with the finer
\* separators (or kept whole when there are none).
SplitLoop(splits, i, finer, good, final) ==
    IF i > Len(splits)
    THEN final \o (IF good = <<>> THEN <<>> ELSE MergeSplits(good))
    ELSE
        LET s == splits[i]
        IN  IF Len(s) < ChunkSize
            THEN SplitLoop(splits, i + 1, finer, Append(good, s), final)
            ELSE SplitLoop(splits, i + 1, finer, <<>>,
                     final
                     \o (IF good = <<>> THEN <<>> ELSE MergeSplits(good))
                     \o (IF finer = <<>> THEN <<s>> ELSE SplitText(s, finer)))

\* RecursiveCharacterTextSplitter._split_text(text, separators)
SplitText(text, seps) ==
    LET k     == PickSeparator(text, seps, 1)
        sep   == seps[k]
        finer == IF sep = <<>> \/ FindFrom(text, sep, 1) = 0
                 THEN <<>>
                 ELSE SubSeq(seps, k + 1, Len(seps))
    IN  SplitLoop(SplitWithRegex(text, sep), 1, finer, <<>>, <<>>)

\* get_text_chunks(text)
get_text_chunks(text) == SplitText(text, Separators)

\* ------------------------------------------------------------ get_pdf_text

\* An uploaded file: the extractable text of each of its pages, or a file
\* PdfReader cannot read.
PdfFile(pages) == [readable |-> TRUE, pages |-> pages]
Malformed == [readable |-> FALSE, pages |-> <<>>]

Returned(v) == [raised |-> FALSE, value |-> v, message |-> ""]
Raised(m) == [raised |-> TRUE, value |-> <<>>, message |-> m]

\* ReadPages with text = page.extract_text() in place of +=.
ReadPages_Overwrite(pages, j, text) ==
    IF pages = <<>> THEN text ELSE pages[Len(pages)]

\* The inner loop: text += page.extract_text(), from page j on.
RECURSIVE ReadPages(_, _, _)
ReadPages(pages, j, text) ==
    IF j > Len(pages) THEN text
    ELSE ReadPages(pages, j + 1, text \o pages[j])

\* The outer loop of get_pdf_text, from file i on; PdfReader(pdf.file)
\* raises on a file it cannot read.
RECURSIVE ReadFiles(_, _, _)
ReadFiles(pdf_docs, i, text) ==
    IF i > Len(pdf_docs) THEN Returned(text)
    ELSE IF ~pdf_docs[i].readable THEN Raised("EOF marker not found")
    ELSE ReadFiles(pdf_docs, i + 1, ReadPages(pdf_docs[i].pages, 1, text))

\* get_pdf_text(pdf_docs)
get_pdf_text(pdf_docs) == ReadFiles(pdf_docs, 1, <<>>)

\* ---------------------------------------------------------- the service

\* Bounds: requests served and worker processes of the deployment.
MaxReqs == 2
NumProcs == 2

Reqs == 1..MaxReqs
Procs == 1..NumProcs

\* A user_question the request does not carry.
NoPart == "no part"

\* The pdf_files part of a request: the files it holds, or no such part.
FilesPart(files) == [present |-> TRUE, files |-> files]
NoFilesPart == [present |-> FALSE, files |-> <<>>]
NoResponse == [status |-> 0]

FileA == PdfFile(<< <<"a", "b">> >>)
FileB == PdfFile(<< <<"b">>, <<>>, <<"a", SP, "b">> >>)
FileScan == PdfFile(<< <<>> >>)

\* The pdf_files and user_question parts requests are sent with.
Uploads == {NoFilesPart, FilesPart(<<FileA>>), FilesPart(<<FileB>>),
            FilesPart(<<FileScan>>), FilesPart(<<Malformed>>)}
Questions == {NoPart, "What is the capital of France?"}

\* What the hosted model may write.
Answers == {"Paris", "answer is not available in the context"}

\* similarity_search(user_question) is called without k: the default.
DefaultK == 4

Min(a, b) == IF a < b THEN a ELSE b

\* The error FastAPI reports for a required part of the body that is missing.
MissingError(name) ==
    [type |-> "missing", loc |-> <<"body", name>>, msg |-> "Field required"]

\* The errors of binding the handler's parameters, in the order the
\* parameters are declared: user_question, then pdf_files.
BindErrors(part, q) ==
    (IF q = NoPart THEN <<MissingError("user_question")>> ELSE <<>>)
        \o (IF ~part.present THEN <<MissingError("pdf_files")>> ELSE <<>>)

\* BindStatus with a missing part reported as 400.
BindStatus_BadRequest(part, q) ==
    IF ~part.present \/ q = NoPart THEN 400 ELSE 200

\* FastAPI binds user_question: str = Form(...) and
\* pdf_files: List[UploadFile] = File(...) before it calls the handler; a
\* required part that is missing is a request validation error.
BindStatus(part, q) ==
    IF BindErrors(part, q) # <<>> THEN 422 ELSE 200

\* ErrorResponse with the exception's message left out.
ErrorResponse_NoMessage(m) ==
    [status |-> 400, detail |-> "Error processing question: "]

\* except Exception as e: raise HTTPException(status_code=400, detail=...)
ErrorResponse(m) ==
    [status |-> 400, detail |-> "Error processing question: " \o m]

\* GetVectorStore with an empty list of chunks accepted.
GetVectorStore_AcceptEmpty(store, r, chunks) ==
    Returned(store \cup {[id |-> r, n |-> i, text |-> chunks[i]] :
                             i \in 1..Len(chunks)})

\* GetVectorStore with the records never written to the directory.
GetVectorStore_NotPersisted(store, r, chunks) ==
    IF chunks = <<>>
    THEN Raised("Expected IDs to be a non-empty list, got []")
    ELSE Returned(store)

\* get_vector_store(text_chunks) called by request r on the collection store:
\* Chroma.from_texts opens (get-or-create) the collection persisted at
\* "chroma_db" and adds one record per chunk under a new uuid, here the
\* request and the chunk's position; the records already there stay, and
\* nothing in the source deletes the directory or the collection.  An empty
\* list of chunks is refused by the collection's add.
GetVectorStore(store, r, chunks) ==
    IF chunks = <<>>
    THEN Raised("Expected IDs to be a non-empty list, got []")
    ELSE Returned(store \cup {[id |-> r, n |-> i, text |-> chunks[i]] :
                                  i \in 1..Len(chunks)})

\* SimilaritySearch over the records of request r alone.
SimilaritySearch_OwnOnly(store, r) ==
    LET own == {rec \in store : rec.id = r}
    IN  {S \in SUBSET own : Cardinality(S) = Min(DefaultK, Cardinality(own))}

\* The results similarity_search may return for request r from the
\* collection store: DefaultK records of it, all of it when it holds fewer.
SimilaritySearch(store, r) ==
    {S \in SUBSET store : Cardinality(S) = Min(DefaultK, Cardinality(store))}

\* The service has started: no request yet, no directory "chroma_db".
SvcInit ==
    /\ pc = [r \in Reqs |-> "idle"]
    /\ proc = [r \in Reqs |-> 0]
    /\ upload = [r \in Reqs |-> NoFilesPart]
    /\ question = [r \in Reqs |-> NoPart]
    /\ raw_text = [r \in Reqs |-> <<>>]
    /\ text_chunks = [r \in Reqs |-> <<>>]
    /\ docs = [r \in Reqs |-> {}]
    /\ response = [r \in Reqs |-> NoResponse]
    /\ loop = [p \in Procs |-> 0]
    /\ index = {}
    /\ dir_exists = FALSE
    /\ trace = [r \in Reqs |-> <<>>]
    /\ raised = [r \in Reqs |-> <<>>]
    /\ stored = [r \in Reqs |-> {}]
    /\ seen = [r \in Reqs |-> {}]

\* The helpers are not being applied.
c_Idle == c_text = <<>> /\ c_chunks = <<>> /\ c_pc = "returned"
e_Idle == e_docs = <<>> /\ e_result = Returned(<<>>) /\ e_pc = "returned"

Init == SvcInit /\ c_Idle /\ e_Idle

\* The handler of r enters a stage.
Enter(r, stage) == trace' = [trace EXCEPT ![r] = Append(@, stage)]

\* The handler goes on to the next statement.
Goto(r, next) ==
    /\ pc' = [pc EXCEPT ![r] = next]
    /\ UNCHANGED <<response, loop, raised>>

\* Except with the handler run again after its first exception.
Except_RetryOnce(r, m) ==
    /\ raised' = [raised EXCEPT ![r] =
           Append(@, [at |-> Len(trace'[r]), message |-> m])]
    /\ loop' = [loop EXCEPT ![proc[r]] = 0]
    /\ IF raised[r] = <<>>
       THEN /\ pc' = [pc EXCEPT ![r] = "ready"]
            /\ UNCHANGED response
       ELSE /\ pc' = [pc EXCEPT ![r] = "done"]
            /\ response' = [response EXCEPT ![r] = ErrorResponse(m)]

\* An exception with message m leaves the try block: the handler answers
\* 400 and its coroutine ends.
Except(r, m) ==
    /\ pc' = [pc EXCEPT ![r] = "done"]
    /\ response' = [response EXCEPT ![r] = ErrorResponse(m)]
    /\ loop' = [loop EXCEPT ![proc[r]] = 0]
    /\ raised' = [raised EXCEPT ![r] =
           Append(@, [at |-> Len(trace'[r]), message |-> m])]

\* The handler of r is over: the documents it retrieved are dropped with
\* its frame.
Forget(r) ==
    /\ docs' = [docs EXCEPT ![r] = {}]
    /\ seen' = [seen EXCEPT ![r] = {}]

\* Process p takes up request r: on its event loop, which is in no handler,
\* FastAPI reads the form and binds the handler's parameters, answers 422
\* with the list of errors itself when a part is missing and otherwise
\* schedules the handler.  Requests are numbered in the order they are
\* taken up and processes in the order they first take one.
Arrive(r, p) ==
    /\ pc[r] = "idle"
    /\ loop[p] = 0
    /\ IF r = 1 THEN TRUE ELSE pc[r - 1] # "idle"
    /\ \A q \in Procs : q < p => \E o \in Reqs : proc[o] = q
    /\ \E part \in Uploads, q \in Questions :
        /\ upload' = [upload EXCEPT ![r] = part]
        /\ question' = [question EXCEPT ![r] = q]
        /\ IF BindStatus(part, q) = 200
           THEN /\ pc' = [pc EXCEPT ![r] = "ready"]
                /\ UNCHANGED response
           ELSE /\ pc' = [pc EXCEPT ![r] = "done"]
                /\ response' = [response EXCEPT ![r] =
                       [status |-> BindStatus(part, q),
                        detail |-> BindErrors(part, q)]]
    /\ proc' = [proc EXCEPT ![r] = p]
    /\ UNCHANGED <<raw_text, text_chunks, docs, loop, index, dir_exists,
                   trace, raised, stored, seen, c_vars, e_vars>>

\* The event loop of r's process is free and starts r's handler, which runs
\* raw_text = get_pdf_text(pdf_files).  The handler awaits nothing, so the
\* loop runs it until it returns or raises.
Extract(r) ==
    /\ pc[r] = "ready"
    /\ loop[proc[r]] = 0
    /\ Enter(r, "extract")
    /\ LET got == get_pdf_text(upload[r].files)
       IN  IF got.raised
           THEN /\ Except(r, got.message)
                /\ UNCHANGED raw_text
           ELSE /\ raw_text' = [raw_text EXCEPT ![r] = got.value]
                /\ pc' = [pc EXCEPT ![r] = "chunk"]
                /\ loop' = [loop EXCEPT ![proc[r]] = r]
                /\ UNCHANGED <<response, raised>>
    /\ UNCHANGED <<proc, upload, question, text_chunks, docs, index,
                   dir_exists, stored, seen, c_vars, e_vars>>

\* text_chunks = get_text_chunks(raw_text)
Chunk(r) ==
    /\ pc[r] = "chunk"
    /\ loop[proc[r]] = r
    /\ Enter(r, "chunk")
    /\ text_chunks' = [text_chunks EXCEPT ![r] = get_text_chunks(raw_text[r])]
    /\ Goto(r, "index")
    /\ UNCHANGED <<proc, upload, question, raw_text, docs, index, dir_exists,
                   stored, seen, c_vars, e_vars>>

\* The splitter runs out of memory: MemoryError(), whose message is empty.
ChunkFail(r) ==
    /\ pc[r] = "chunk"
    /\ loop[proc[r]] = r
    /\ Enter(r, "chunk")
    /\ Except(r, "")
    /\ UNCHANGED <<proc, upload, question, raw_text, text_chunks, docs, index,
                   dir_exists, stored, seen, c_vars, e_vars>>

\* get_vector_store(text_chunks)
Index(r) ==
    /\ pc[r] = "index"
    /\ loop[proc[r]] = r
    /\ Enter(r, "index")
    /\ dir_exists' = TRUE
    /\ LET got == GetVectorStore(index, r, text_chunks[r])
       IN  IF got.raised
           THEN /\ Except(r, got.message)
                /\ UNCHANGED <<index, stored>>
           ELSE /\ index' = got.value
                /\ stored' = [stored EXCEPT ![r] = got.value]
                /\ Goto(r, "retrieve")
    /\ UNCHANGED <<proc, upload, question, raw_text, text_chunks, docs, seen,
                   c_vars, e_vars>>

\* The embedding model fails before anything is added.
IndexFail(r) ==
    /\ pc[r] = "index"
    /\ loop[proc[r]] = r
    /\ Enter(r, "index")
    /\ dir_exists' = TRUE
    /\ Except(r, "embedding failed")
    /\ UNCHANGED <<proc, upload, question, raw_text, text_chunks, docs, index,
                   stored, seen, c_vars, e_vars>>

\* vector_store = Chroma(persist_directory="chroma_db", ...) and
\* docs = vector_store.similarity_search(user_question)
Retrieve(r) ==
    /\ pc[r] = "retrieve"
    /\ loop[proc[r]] = r
    /\ Enter(r, "retrieve")
    /\ dir_exists' = TRUE
    /\ \E found \in SimilaritySearch(index, r) :
        docs' = [docs EXCEPT ![r] = found]
    /\ seen' = [seen EXCEPT ![r] = index]
    /\ Goto(r, "answer")
    /\ UNCHANGED <<proc, upload, question, raw_text, text_chunks, index,
                   stored, c_vars, e_vars>>

\* Reading the collection fails.
RetrieveFail(r) ==
    /\ pc[r] = "retrieve"
    /\ loop[proc[r]] = r
    /\ Enter(r, "retrieve")
    /\ dir_exists' = TRUE
    /\ Except(r, "disk I/O error")
    /\ UNCHANGED <<proc, upload, question, raw_text, text_chunks, docs, index,
                   stored, seen, c_vars, e_vars>>

\* chain = get_conversational_chain(); response = chain(...);
\* return {"answer": response["output_text"]}
Answer(r) ==
    /\ pc[r] = "answer"
    /\ loop[proc[r]] = r
    /\ Enter(r, "answer")
    /\ \E text \in Answers :
        response' = [response EXCEPT ![r] = [status |-> 200, answer |-> text]]
    /\ pc' = [pc EXCEPT ![r] = "done"]
    /\ loop' = [loop EXCEPT ![proc[r]] = 0]
    /\ Forget(r)
    /\ UNCHANGED <<raised, proc, upload, question, raw_text, text_chunks, index,
                   dir_exists, stored, c_vars, e_vars>>

\* The call of the hosted model fails.
AnswerFail(r) ==
    /\ pc[r] = "answer"
    /\ loop[proc[r]] = r
    /\ Enter(r, "answer")
    /\ Except(r, "quota exceeded")
    /\ Forget(r)
    /\ UNCHANGED <<proc, upload, question, raw_text, text_chunks, index,
                   dir_exists, stored, c_vars, e_vars>>

Step(r) ==
    \/ Extract(r)
    \/ Chunk(r)
    \/ ChunkFail(r)
    \/ Index(r)
    \/ IndexFail(r)
    \/ Retrieve(r)
    \/ RetrieveFail(r)
    \/ Answer(r)
    \/ AnswerFail(r)

\* Several worker processes share the directory "chroma_db".
Next ==
    \/ \E r \in Reqs, p \in Procs : Arrive(r, p)
    \/ \E r \in Reqs : Step(r)

Spec == Init /\ [][Next]_vars

\* One server process: every request is received by process 1.
NextSingle ==
    \/ \E r \in Reqs : Arrive(r, 1)
    \/ \E r \in Reqs : Step(r)

SpecSingle == Init /\ [][NextSingle]_vars

\* ------------------------------------------------------------ SpecChunker

Texts(n) == UNION {[1..k -> Chars] : k \in 0..n}

c_Init ==
    /\ c_text \in Texts(MaxLen)
    /\ c_chunks = <<>>
    /\ c_pc = "call"

c_Apply ==
    /\ c_pc = "call"
    /\ c_chunks' = get_text_chunks(c_text)
    /\ c_pc' = "returned"
    /\ UNCHANGED <<c_text, svc_vars, e_vars>>

InitChunker == c_Init /\ SvcInit /\ e_Idle

SpecChunker == InitChunker /\ [][c_Apply]_vars

\* ---------------------------------------------------------- SpecExtractor

\* Bounds on the inputs given to get_pdf_text.
MaxFiles == 2
MaxPages == 2

PageTexts == {<<>>, <<"a">>, <<"b", SP>>}
Lists(S, n) == UNION {[1..k -> S] : k \in 0..n}
Files == {PdfFile(pages) : pages \in Lists(PageTexts, MaxPages)} \cup {Malformed}

e_Apply ==
    /\ e_pc = "call"
    /\ e_result' = get_pdf_text(e_docs)
    /\ e_pc' = "returned"
    /\ UNCHANGED <<e_docs, svc_vars, c_vars>>

e_Init ==
    /\ e_docs \in Lists(Files, MaxFiles)
    /\ e_result = Returned(<<>>)
    /\ e_pc = "call"

InitExtractor == e_Init /\ SvcInit /\ c_Idle

SpecExtractor == InitExtractor /\ [][e_Apply]_vars

\* ================================================================ claims

Stages == <<"extract", "chunk", "index", "retrieve", "answer">>

IsPrefix(s, t) == Len(s) <= Len(t) /\ s = SubSeq(t, 1, Len(s))

\* The handler of r is between its first and its last statement.
InHandler(r) == pc[r] \in {"chunk", "index", "retrieve", "answer"}

\* The handler of r ended with an exception raised in the given stage.
FailedIn(r, stage) ==
    /\ pc[r] = "done"
    /\ raised[r] # <<>>
    /\ trace[r] # <<>>
    /\ trace[r][Len(trace[r])] = stage

\* The records get_vector_store writes for the chunks of r.
OwnRecords(r) ==
    {[id |-> r, n |-> i, text |-> text_chunks[r][i]] :
        i \in 1..Len(text_chunks[r])}

\* The record holds a chunk of the documents of request r.
ChunkOf(r, rec) ==
    \E i \in 1..Len(text_chunks[r]) : text_chunks[r][i] = rec.text

\* ---------------------------------------------------------------- C1
\* C1 (as claimed): with the requests served one after the other, the
\* collection holds exactly the chunks of the request that has just run
\* get_vector_store, and what a request retrieves are chunks of its own
\* documents only.
C1_RebuildSemantics ==
    \A r \in Reqs :
        /\ pc[r] \in {"retrieve", "answer"} =>
              \A rec \in stored[r] : ChunkOf(r, rec)
        /\ pc[r] = "answer" => \A rec \in docs[r] : ChunkOf(r, rec)

\* ---------------------------------------------------------------- C2
\* C2: once the handler body of a request is reached, an exception with
\* message m raised in any stage ends the request with status 400 and detail
\* "Error processing question: " followed by m, and a handler that ended
\* without an exception answered 200.
C2_UniformFailure ==
    \A r \in Reqs :
        trace[r] # <<>> =>
            /\ raised[r] # <<>> =>
                /\ pc[r] = "done"
                /\ response[r] =
                       [status |-> 400,
                        detail |-> "Error processing question: "
                                       \o raised[r][1].message]
            /\ (pc[r] = "done" /\ raised[r] = <<>>) => response[r].status = 200

\* Two requests have failed, one in extraction and one in generation, each
\* with the message of its own exception.
C2_Witness ==
    \E r1, r2 \in Reqs :
        /\ FailedIn(r1, "extract")
        /\ FailedIn(r2, "answer")
        /\ response[r1].detail = "Error processing question: EOF marker not found"
        /\ response[r2].detail = "Error processing question: quota exceeded"

\* ---------------------------------------------------------------- C3
\* C3 (as claimed): a request without a pdf_files part is answered with
\* status 400 and a detail.
C3_Original ==
    \A r \in Reqs :
        (pc[r] # "idle" /\ ~upload[r].present) =>
            /\ response[r].status = 400
            /\ "detail" \in DOMAIN response[r]

\* C3 (amended): a request without a pdf_files part is answered with status
\* 422 and a detail, a list of errors of which one names pdf_files, by the
\* parameter binding: the handler body never runs.
C3_MissingFiles ==
    \A r \in Reqs :
        (pc[r] # "idle" /\ ~upload[r].present) =>
            /\ pc[r] = "done"
            /\ response[r].status = 422
            /\ "detail" \in DOMAIN response[r]
            /\ \E i \in 1..Len(response[r].detail) :
                  response[r].detail[i].loc = <<"body", "pdf_files">>
            /\ trace[r] = <<>>

\* A request with a question and no pdf_files part was answered 422.
C3_Witness ==
    \E r \in Reqs :
        /\ pc[r] = "done"
        /\ ~upload[r].present
        /\ question[r] # NoPart
        /\ response[r] =
               [status |-> 422, detail |-> <<MissingError("pdf_files")>>]

\* ---------------------------------------------------------------- C4
\* C4: a retrieval reads the one collection every process writes to: what it
\* returns are DefaultK records (or all, when there are fewer) of everything
\* that was in the collection at that moment, which is what the request
\* stored together with whatever any other request added before or since;
\* no record is scoped to the request that wrote it.
C4_SharedStore ==
    \A r \in Reqs :
        pc[r] = "answer" =>
            /\ stored[r] \subseteq seen[r]
            /\ seen[r] \subseteq index
            /\ docs[r] \subseteq seen[r]
            /\ Cardinality(docs[r]) = Min(DefaultK, Cardinality(seen[r]))

\* R1 and R2 are in the handlers of two processes; R1 stored its chunks
\* before R2 did, R2 stored its own before R1 retrieved, and R1 is about to
\* call the model with a chunk of R2's documents.
C4_Witness ==
    \E r1, r2 \in Reqs :
        /\ r1 # r2
        /\ proc[r1] # proc[r2]
        /\ pc[r1] = "answer"
        /\ pc[r2] \in {"retrieve", "answer"}
        /\ \A rec \in stored[r1] : rec.id # r2
        /\ \E rec \in docs[r1] : rec.id = r2 /\ ~ChunkOf(r1, rec)

\* ---------------------------------------------------------------- C5
\* C5: the stages a handler has entered are an initial part of extract,
\* chunk, index, retrieve, answer, each entered once; a request is at a
\* stage only when all the earlier ones returned; an exception is the last
\* thing its handler does; the model is called only after indexing and
\* retrieval of the same request completed.
C5_StraightLine ==
    \A r \in Reqs :
        /\ IsPrefix(trace[r], Stages)
        /\ Len(raised[r]) <= 1
        /\ \A i \in 1..Len(raised[r]) :
              /\ raised[r][i].at = Len(trace[r])
              /\ pc[r] = "done"
        /\ \A k \in 2..Len(Stages) :
              pc[r] = Stages[k] =>
                  /\ trace[r] = SubSeq(Stages, 1, k - 1)
                  /\ raised[r] = <<>>
        /\ Len(trace[r]) = Len(Stages) =>
              /\ OwnRecords(r) # {}
              /\ OwnRecords(r) \subseteq index
              /\ pc[r] = "done"

\* One request went through the five stages and was answered; another one
\* stopped at indexing.
C5_Witness ==
    \E r1, r2 \in Reqs :
        /\ trace[r1] = Stages
        /\ response[r1].status = 200
        /\ FailedIn(r2, "index")
        /\ trace[r2] = <<"extract", "chunk", "index">>

\* ---------------------------------------------------------------- C6
NoWhitespace(text) == \A i \in 1..Len(text) : text[i] \notin Whitespace

\* ceil((L - O) / (C - O))
WindowCount(L) ==
    ((L - ChunkOverlap) + (ChunkSize - ChunkOverlap) - 1)
        \div (ChunkSize - ChunkOverlap)

\* Every chunk but the last has ChunkSize characters, every chunk starts
\* with the last ChunkOverlap characters of the one before it, and there are
\* WindowCount of them.
ExactWindows(text, chunks) ==
    /\ \A i \in 1..(Len(chunks) - 1) : Len(chunks[i]) = ChunkSize
    /\ \A i \in 1..(Len(chunks) - 1) :
          /\ Len(chunks[i + 1]) >= ChunkOverlap
          /\ SubSeq(chunks[i + 1], 1, ChunkOverlap)
                 = SubSeq(chunks[i], Len(chunks[i]) - ChunkOverlap + 1,
                          Len(chunks[i]))
    /\ Len(chunks) = WindowCount(Len(text))

\* C6 (as claimed): for every input longer than ChunkSize the chunks are
\* substrings of the input, all but the last of exactly ChunkSize
\* characters, consecutive ones overlapping by exactly ChunkOverlap, and
\* their number is ceil((L - O) / (C - O)).
C6_Original ==
    (c_pc = "returned" /\ Len(c_text) > ChunkSize) =>
        /\ \A i \in 1..Len(c_chunks) : IsSubstring(c_chunks[i], c_text)
        /\ ExactWindows(c_text, c_chunks)

\* C6 (amended): every chunk is a non-empty substring of the input of at
\* most ChunkSize characters; for an input longer than ChunkSize that holds
\* no whitespace character (none of those str.strip() removes, which
\* include the characters of the separators), all chunks but the last have
\* exactly ChunkSize
\* characters, consecutive ones overlap by exactly ChunkOverlap and their
\* number is ceil((L - O) / (C - O)).
C6_Chunker ==
    c_pc = "returned" =>
        /\ \A i \in 1..Len(c_chunks) :
              /\ c_chunks[i] # <<>>
              /\ Len(c_chunks[i]) <= ChunkSize
              /\ IsSubstring(c_chunks[i], c_text)
        /\ (Len(c_text) > ChunkSize /\ NoWhitespace(c_text)) =>
              ExactWindows(c_text, c_chunks)

\* An input without whitespace was cut into three windows.
C6_Witness ==
    /\ c_pc = "returned"
    /\ NoWhitespace(c_text)
    /\ Len(c_text) > ChunkSize
    /\ Len(c_chunks) = 3
    /\ c_chunks[1] # c_chunks[2]

\* ---------------------------------------------------------------- C7
Readable(pdf_docs) == \A i \in 1..Len(pdf_docs) : pdf_docs[i].readable

RECURSIVE SumLen(_)
SumLen(texts) == IF texts = <<>> THEN 0 ELSE Len(Head(texts)) + SumLen(Tail(texts))

\* Number of characters on the pages before page j of file i.
Offset(pdf_docs, i, j) ==
    SumLen([f \in 1..(i - 1) |-> Flatten(pdf_docs[f].pages)])
        + SumLen(SubSeq(pdf_docs[i].pages, 1, j - 1))

\* The list without its last file, and the list without the last page of
\* its last file.
Shorter(pdf_docs) ==
    IF pdf_docs = <<>> THEN {}
    ELSE LET n    == Len(pdf_docs)
             last == pdf_docs[n].pages
         IN  {SubSeq(pdf_docs, 1, n - 1)}
             \cup (IF last = <<>> THEN {}
                   ELSE {[pdf_docs EXCEPT ![n] =
                             PdfFile(SubSeq(last, 1, Len(last) - 1))]})

\* C7: for readable files get_pdf_text raises nothing and returns the text
\* of every page, each at the place the pages before it leave it (files in
\* list order, pages in page order), an empty page adding nothing; the text
\* is never shorter than the one returned without the last page or file.
C7_Concatenation ==
    (e_pc = "returned" /\ Readable(e_docs)) =>
        /\ ~e_result.raised
        /\ Len(e_result.value)
               = SumLen([f \in 1..Len(e_docs) |-> Flatten(e_docs[f].pages)])
        /\ \A i \in 1..Len(e_docs) :
              \A j \in 1..Len(e_docs[i].pages) :
                  SubSeq(e_result.value,
                         Offset(e_docs, i, j) + 1,
                         Offset(e_docs, i, j) + Len(e_docs[i].pages[j]))
                      = e_docs[i].pages[j]
        /\ \A less \in Shorter(e_docs) :
              /\ ~get_pdf_text(less).raised
              /\ Len(get_pdf_text(less).value) <= Len(e_result.value)

\* Two files were read, with a page without text between pages with text.
C7_Witness ==
    /\ e_pc = "returned"
    /\ Len(e_docs) = 2
    /\ Readable(e_docs)
    /\ e_docs[1].pages = << <<"a">>, <<>> >>
    /\ e_docs[2].pages = << <<"b", SP>>, <<"a">> >>
    /\ e_result.value = <<"a", "b", SP, "a">>

\* ---------------------------------------------------------------- C8
\* C8 (as claimed): a request whose documents yielded no chunks gets as far
\* as the retrieval step, which raises on the empty index.
C8_Original ==
    \A r \in Reqs :
        (pc[r] = "done" /\ Len(trace[r]) >= 3 /\ text_chunks[r] = <<>>) =>
            FailedIn(r, "retrieve")

\* C8 (amended): a request whose documents yielded no chunks ends with
\* status 400 and without a call of the model, the exception being raised by
\* the indexing step (the empty list of chunks is rejected); retrieval
\* therefore never opens a missing or empty index: the collection it reads
\* holds at least the chunks of its own request.
C8_NoText ==
    \A r \in Reqs :
        /\ (Len(trace[r]) >= 3 /\ text_chunks[r] = <<>>) =>
              /\ FailedIn(r, "index")
              /\ trace[r] = <<"extract", "chunk", "index">>
              /\ response[r].status = 400
        /\ pc[r] = "answer" =>
              /\ dir_exists
              /\ OwnRecords(r) # {}
              /\ OwnRecords(r) \subseteq seen[r]

\* A request with a scanned page (no text) was refused by the indexing step
\* while the collection held the chunks of another request.
C8_Witness ==
    \E r \in Reqs :
        /\ upload[r] = FilesPart(<<FileScan>>)
        /\ text_chunks[r] = <<>>
        /\ FailedIn(r, "index")
        /\ response[r].detail =
               "Error processing question: Expected IDs to be a non-empty list, got []"
        /\ index # {}

\* ---------------------------------------------------------------- C9
\* The step taken enters the given stage of request r.
Enters(r, stage) ==
    /\ trace'[r] # trace[r]
    /\ trace'[r][Len(trace'[r])] = stage

\* C9: a step of extraction or chunking, failing or not, leaves the
\* collection and its directory as they are; a step of retrieval or
\* generation, failing or not, removes nothing: after it the collection
\* still holds every chunk its request stored.
C9_FrameOfFailure ==
    [][\A r \in Reqs :
          /\ (Enters(r, "extract") \/ Enters(r, "chunk")) =>
                /\ index' = index
                /\ dir_exists' = dir_exists
                /\ \A rec \in index' : rec.id # r
          /\ (Enters(r, "retrieve") \/ Enters(r, "answer")) =>
                /\ index' = index
                /\ OwnRecords(r) # {}
                /\ OwnRecords(r) \subseteq index']_vars

\* One request failed in extraction and left nothing in the collection;
\* another failed in generation and its chunks are still there.
C9_Witness ==
    \E r1, r2 \in Reqs :
        /\ FailedIn(r1, "extract")
        /\ \A rec \in index : rec.id # r1
        /\ FailedIn(r2, "answer")
        /\ response[r2].status = 400
        /\ OwnRecords(r2) # {}
        /\ OwnRecords(r2) \subseteq index

\* --------------------------------------------------------------- C10
\* In one process no two handlers are between their first and last
\* statement at once.
NoInterleaving ==
    /\ \A r \in Reqs : InHandler(r) => loop[proc[r]] = r
    /\ \A r1, r2 \in Reqs :
          (r1 # r2 /\ proc[r1] = proc[r2]) =>
              ~(InHandler(r1) /\ InHandler(r2))

\* C10 (as claimed): with one server process the handlers do not interleave,
\* a request retrieves from the collection as it left it, and no request
\* retrieves a chunk of another request's documents.
C10_SingleProcess ==
    /\ NoInterleaving
    /\ \A r \in Reqs :
          pc[r] = "answer" =>
              /\ seen[r] = stored[r]
              /\ \A rec \in docs[r] : ChunkOf(r, rec)

====
